---- MODULE Spec2Model ----
(***************************************************************************)
(* A model of bevycraft's in-memory voxel storage layer:                   *)
(*   - PackedArrayU32 (bevycraft_core/src/memory/packed_array_u32.rs)      *)
(*   - Morton3D       (bevycraft_world/src/morton/morton_3d.rs)            *)
(*   - Node64         (bevycraft_world/src/spatial/node_64.rs)             *)
(*   - Tree64         (bevycraft_world/src/spatial/tree_64.rs)             *)
(*   - Section        (bevycraft_world/src/chunk/section.rs)               *)
(*   - IString        (bevycraft_core/src/identity/i_string.rs)            *)
(*                                                                         *)
(* Machine words are modelled as the set of their 1-bit positions          *)
(* (a u64 is a subset of 0..63, a u32 a subset of 0..31), so that shifts,  *)
(* masks and truncations are computed bit by bit, as the code does, and    *)
(* no value exceeds the range of the model checker's integers.  A heap     *)
(* buffer is the set of the positions of its 1-bits, bit 8*b+k being bit k *)
(* of byte b (the little-endian layout read_unaligned sees).               *)
(***************************************************************************)
EXTENDS Integers, FiniteSets, Sequences, TLC

VARIABLES
    build,      \* "debug" | "release": whether debug_assert! is compiled in
    pc,         \* "new" (not constructed) | "ok" | "panicked" | "undefined"
    bits,       \* PackedArrayU32::bits
    size,       \* PackedArrayU32::size
    layout,     \* PackedArrayU32::layout.size(), the bytes of the heap block
    buffer,     \* the heap block behind PackedArrayU32::buffer (its 1-bits)
    op,         \* the last call: its name, arguments and result
    oob,        \* the last call loaded or stored a byte outside the block
    leaked,     \* a heap block was overwritten in `buffer` without dealloc
    calls,      \* the caller: the calls it has counted on this array
    mty,        \* Morton3D: the coordinate type, "UVec3" | "IVec3" | "[i32; 3]" | "(i32, i32, i32)"
    mstage,     \* Morton3D: "idle" | "input" | "encoded" | "decoded"
    mpos,       \* Morton3D: the coordinates handed to encode
    mcode,      \* Morton3D: the code (Morton3D.0)
    mout,       \* Morton3D: the decoded coordinates
    child_ptr,  \* Node64::child_ptr
    child_mask, \* Node64::child_mask
    npc,        \* Node64: "new" (not constructed) | "ok" | "panicked"
    nop,        \* Node64: the last call, its arguments and result
    root,       \* Tree64::root
    node_pool,  \* Tree64::node_pool
    leaf_pool,  \* Tree64::leaf_pool
    depth,      \* Tree64::depth
    tpc,        \* Tree64: "new" (not constructed) | "ok" | "panicked"
    top,        \* Tree64: the last call, its arguments and result
    content,    \* Section::content (Section::states is the packed array above)
    sres,       \* Section: what the last get returned
    slog,       \* Section: the set calls its caller has made, in order
    entries,    \* StringInterner::entries: string |-> address of its leaked copy
    lock,       \* the RwLock around entries: its readers and its writer
    ipc,        \* IString::from, per thread: its position in get_or_intern
    iarg,       \* IString::from, per thread: the string it was handed
    made,       \* per thread: the IStrings it has made, in order
    boxes       \* the heap boxes leaked by Box::leak, in order: their content

pvars == <<build, pc, bits, size, layout, buffer, op, oob, leaked>>
mvars == <<mty, mstage, mpos, mcode, mout>>
nvars == <<child_ptr, child_mask, npc, nop>>
tvars == <<root, node_pool, leaf_pool, depth, tpc, top>>
svars == <<content, sres, slog>>
ivars == <<entries, lock, ipc, iarg, made, boxes>>
\* What the packed array and its caller leave alone.
others == <<mvars, nvars, tvars, svars, ivars>>
vars == <<build, pc, bits, size, layout, buffer, op, oob, leaked, calls, mty, mstage, mpos, mcode, mout,
          child_ptr, child_mask, npc, nop, root, node_pool, leaf_pool, depth, tpc, top,
          content, sres, slog, entries, lock, ipc, iarg, made, boxes>>

----------------------------------------------------------------------------
(* Bounds of the model *)

\* Largest element count handed to a constructor or to allocate.
MaxCount == 2
\* Calls the unrestricted caller of Spec makes on one array after constructing it.
MaxOps == 2
\* Width changes the caller of SpecResize makes on one array.
MaxResizes == 1
\* Largest bit width a release build is followed to (it has no upper check).
MaxModelBits == 37
\* Set calls the caller of SpecSection makes on one section.
MaxSets == 3
\* Threads that call IString::from, and the calls each of them makes.
NumThreads == 2
MaxFroms == 2

----------------------------------------------------------------------------
(* Machine words *)

\* u32::BITS
MAX_BITS == 32

U64 == 0..63
U32 == 0..31

\* The word of a small natural number (n < 2^31).
Bits(n) == {b \in 0..30 : (n \div (2 ^ b)) % 2 = 1}

RECURSIVE ToNat(_)
\* The natural number of a word whose bits all lie below 2^31.
ToNat(w) ==
    IF w = {} THEN 0
    ELSE LET b == CHOOSE x \in w : TRUE IN (2 ^ b) + ToNat(w \ {b})

\* x << k on u64: bits shifted past bit 63 are lost.
Shl(x, k) == {b + k : b \in x} \cap U64
\* x >> k on u64.
Shr(x, k) == {b - k : b \in {c \in x : c >= k}}
\* !x on u64.
Not64(x) == U64 \ x
\* x ^ y
Xor(x, y) == (x \ y) \cup (y \ x)
\* x - 1 on u64 (wrapping): borrow through the trailing zeros.
Dec(x) ==
    IF x = {} THEN U64
    ELSE LET m == CHOOSE b \in x : \A c \in x : b <= c
         IN (x \ {m}) \cup {b \in U64 : b < m}

\* `row as u32`
AsU32(x) == x \cap U32

\* `amount as isize`: the two's complement reading of a 64-bit word.
AsIsize(w) == IF 63 \in w THEN -(ToNat(U64 \ w) + 1) ELSE ToNat(w)
\* The usize whose `as isize` is n.
Usize(n) == IF n >= 0 THEN Bits(n) ELSE U64 \ Bits(-n - 1)

----------------------------------------------------------------------------
(* PackedArrayU32: the pure helpers *)

\* Words a load may find in the bytes that follow a heap block: memory the
\* array does not own, whose content the program does not control.  The code
\* only shifts, masks and ORs what it loads, so each foreign bit is seen both
\* ways with the all-zero and the all-one word.
ForeignWords == {{}, U64}

\* mask(len) = (1u64 << len) - 1, for len < 64.
mask(len) == Dec(Shl({0}, len))

\* alloc_size(size, bits) = (size * bits).div_ceil(8)
alloc_size(n, nbits) == (n * nbits + 7) \div 8

\* Whether the 8 bytes of the u64 at `byte` all lie inside a block of `lay` bytes.
InBlock(lay, byte) == byte + 8 <= lay

\* (buffer.add(byte) as *const u64).read_unaligned(): the bytes inside the
\* block come from the block, the bytes past its end from foreign memory.
read_unaligned(buf, lay, byte, foreign) ==
    {k \in U64 : IF 8 * byte + k < 8 * lay THEN (8 * byte + k) \in buf
                                            ELSE k \in foreign}

\* ptr.write_unaligned(row): the block after the store (the bytes of the
\* store that fall past the end of the block land in foreign memory).
write_unaligned(buf, lay, byte, row) ==
    {p \in buf : p < 8 * byte \/ p > 8 * byte + 63}
        \cup {p \in {8 * byte + k : k \in row} : p < 8 * lay}

\* read_bits_from_buffer(buffer, bit_index, n_bits)
read_bits_from_buffer(buf, lay, bit_index, n_bits, foreign) ==
    LET row0 == read_unaligned(buf, lay, bit_index \div 8, foreign)
        row1 == Shr(row0, bit_index % 8)
        row2 == row1 \cap mask(n_bits)
    IN AsU32(row2)

\* A store that only ORs the new bits in, without clearing the element first.
write_bits_no_clear(buf, lay, bit_index, n_bits, val, foreign) ==
    LET byte  == bit_index \div 8
        row0  == read_unaligned(buf, lay, byte, foreign)
        shift == bit_index % 8
    IN write_unaligned(buf, lay, byte, row0 \cup Shl(val, shift))

\* A store that clears one bit more than the element has before ORing it in.
write_bits_wide_clear(buf, lay, bit_index, n_bits, val, foreign) ==
    LET byte  == bit_index \div 8
        row0  == read_unaligned(buf, lay, byte, foreign)
        shift == bit_index % 8
        row1  == row0 \cap Not64(Shl(mask(n_bits + 1), shift))
        row2  == row1 \cup Shl(val, shift)
    IN write_unaligned(buf, lay, byte, row2)

\* write_bits_to_buffer(buffer, bit_index, n_bits, bits): the block afterwards.
write_bits_to_buffer(buf, lay, bit_index, n_bits, val, foreign) ==
    LET byte  == bit_index \div 8
        row0  == read_unaligned(buf, lay, byte, foreign)
        shift == bit_index % 8
        row1  == row0 \cap Not64(Shl(mask(n_bits), shift))
        row2  == row1 \cup Shl(val, shift)
    IN write_unaligned(buf, lay, byte, row2)

\* get_unchecked(index) on an array of the given fields.
get_unchecked(buf, lay, nbits, index, foreign) ==
    read_bits_from_buffer(buf, lay, nbits * index, nbits, foreign)

\* set_unchecked(index, value): the block afterwards.
set_unchecked(buf, lay, nbits, index, val, foreign) ==
    write_bits_to_buffer(buf, lay, nbits * index, nbits, val, foreign)

\* Whether get_unchecked / set_unchecked (index) stays inside the block.
access_in_block(lay, nbits, index) == InBlock(lay, (nbits * index) \div 8)

RECURSIVE repack_src_stride(_, _, _, _, _, _, _, _, _)
\* The loop with dst_index advanced by old_bits instead of new_bits.
repack_src_stride(k, n, src, src_lay, old_bits, dst, dst_lay, new_bits, foreign) ==
    IF k = n THEN dst
    ELSE LET value == read_bits_from_buffer(src, src_lay, k * old_bits, old_bits, foreign)
         IN repack_src_stride(k + 1, n, src, src_lay, old_bits,
                   write_bits_to_buffer(dst, dst_lay, k * old_bits, new_bits, value, foreign),
                   dst_lay, new_bits, foreign)

RECURSIVE repack_descending(_, _, _, _, _, _, _, _, _)
\* The loop run from the last element down to the first.
repack_descending(k, n, src, src_lay, old_bits, dst, dst_lay, new_bits, foreign) ==
    IF k = n THEN dst
    ELSE LET j == n - 1 - k
             value == read_bits_from_buffer(src, src_lay, j * old_bits, old_bits, foreign)
         IN repack_descending(k + 1, n, src, src_lay, old_bits,
                   write_bits_to_buffer(dst, dst_lay, j * new_bits, new_bits, value, foreign),
                   dst_lay, new_bits, foreign)

RECURSIVE repack(_, _, _, _, _, _, _, _, _)
\* The loop of resize_bits (lines 141-162): element k is read at old_bits from
\* the old block (src_index = k * old_bits) and written at new_bits into the
\* new one (dst_index = k * new_bits), in ascending order.
repack(k, n, src, src_lay, old_bits, dst, dst_lay, new_bits, foreign) ==
    IF k = n THEN dst
    ELSE LET value == read_bits_from_buffer(src, src_lay, k * old_bits, old_bits, foreign)
         IN repack(k + 1, n, src, src_lay, old_bits,
                   write_bits_to_buffer(dst, dst_lay, k * new_bits, new_bits, value, foreign),
                   dst_lay, new_bits, foreign)

\* Whether every load and store of the resize_bits loop stays inside its block.
repack_in_block(n, src_lay, old_bits, dst_lay, new_bits) ==
    \A k \in 0..(n - 1) :
        InBlock(src_lay, (k * old_bits) \div 8) /\ InBlock(dst_lay, (k * new_bits) \div 8)

\* The argument grow_bits_by_powf2 hands to resize_bits: 1isize << bit_length.
powf2_factor(nbits) == 2 ^ nbits

\* new_bits of resize_bits: (old_bits as isize + resize_factor).max(0) as usize
resized_bits(old_bits, resize_factor) ==
    IF old_bits + resize_factor > 0 THEN old_bits + resize_factor ELSE 0

\* len(), is_empty(), allocated_memory()
len == size
is_empty == size = 0
allocated_memory == IF ~is_empty THEN layout ELSE 0

----------------------------------------------------------------------------
(* PackedArrayU32: the operations *)

\* INITIAL_BITS
INITIAL_BITS == 1

\* The record of a call: its name, its index and word arguments (the word
\* returned, for get) and its integer argument.
Call(name, index, value, arg) ==
    [name |-> name, index |-> index, value |-> value, arg |-> arg]

\* A failed debug_assert! or expect: the call unwinds, the fields are as before.
Panic(call) ==
    /\ pc' = "panicked"
    /\ op' = call
    /\ oob' = FALSE
    /\ UNCHANGED <<build, bits, size, layout, buffer, leaked>>

Counts == 1..MaxCount
Indices == 0..(MaxCount - 1)
\* Bit widths handed to the constructors: the legal ones, 0 and 33.
Widths == 0..(MAX_BITS + 1)
\* The u32 values handed to set on an array of width w: 0, 2^w - 1, 0b..0101,
\* and two that need more than w bits, 2^w and u32::MAX.
InRangeValues(w) == {{}, AsU32(mask(w)), {b \in U32 : b < w /\ b % 2 = 0}}
OverflowValues(w) == {{w} \cap U32, U32}
Values(w) == InRangeValues(w) \cup OverflowValues(w)
\* The usize amounts handed to grow_bits_by; -n stands for 2^64 - n.  The
\* first set keeps some widths inside [1,32], the second takes every one out.
InRangeAmounts == {Usize(1), Usize(3), Usize(28), Usize(-1), Usize(-3)}
OutOfRangeAmounts == {Usize(32), Usize(-40)}
Amounts == InRangeAmounts \cup OutOfRangeAmounts

\* Whether v < 2^w.
Fits(v, w) == \A b \in v : b < w

\* new(size)
New(n) ==
    /\ pc = "new"
    /\ pc' = "ok"
    /\ bits' = INITIAL_BITS
    /\ size' = n
    /\ layout' = alloc_size(n, 1)
    /\ buffer' = {}
    /\ op' = Call("new", n, {}, 0)
    /\ oob' = FALSE
    /\ UNCHANGED <<build, leaked>>

\* zeroed()
Zeroed ==
    /\ pc = "new"
    /\ pc' = "ok"
    /\ bits' = INITIAL_BITS
    /\ size' = 0
    /\ layout' = 0
    /\ buffer' = {}
    /\ op' = Call("zeroed", 0, {}, 0)
    /\ oob' = FALSE
    /\ UNCHANGED <<build, leaked>>

\* with_bit_length(size, bits)
WithBitLength(n, w) ==
    /\ pc = "new"
    /\ IF (build = "debug" /\ ~(w <= MAX_BITS)) \/ w = 0
       THEN Panic(Call("with_bit_length", n, {}, w))
       ELSE /\ pc' = "ok"
            /\ bits' = w
            /\ size' = n
            /\ layout' = alloc_size(n, w)
            /\ buffer' = {}
            /\ op' = Call("with_bit_length", n, {}, w)
            /\ oob' = FALSE
            /\ UNCHANGED <<build, leaked>>

\* zeroed_with_bit_length(bits)
ZeroedWithBitLength(w) ==
    /\ pc = "new"
    /\ IF (build = "debug" /\ ~(w <= MAX_BITS)) \/ w = 0
       THEN Panic(Call("zeroed_with_bit_length", 0, {}, w))
       ELSE /\ pc' = "ok"
            /\ bits' = w
            /\ size' = 0
            /\ layout' = 0
            /\ buffer' = {}
            /\ op' = Call("zeroed_with_bit_length", 0, {}, w)
            /\ oob' = FALSE
            /\ UNCHANGED <<build, leaked>>

\* get(index)
Get(i) ==
    /\ pc = "ok"
    /\ IF build = "debug" /\ ~(i < size)
       THEN Panic(Call("get", i, {}, 0))
       ELSE \E f \in ForeignWords :
            /\ op' = Call("get", i, get_unchecked(buffer, layout, bits, i, f), 0)
            /\ oob' = ~access_in_block(layout, bits, i)
            /\ UNCHANGED <<build, pc, bits, size, layout, buffer, leaked>>

\* set(index, value)
Set(i, v) ==
    /\ pc = "ok"
    /\ IF build = "debug" /\ ~(i < size)
       THEN Panic(Call("set", i, v, 0))
       ELSE \E f \in ForeignWords :
            /\ buffer' = set_unchecked(buffer, layout, bits, i, v, f)
            /\ op' = Call("set", i, v, 0)
            /\ oob' = ~access_in_block(layout, bits, i)
            /\ UNCHANGED <<build, pc, bits, size, layout, leaked>>

\* resize_bits(resize_factor), entered from the call `call`
resize_bits(call, resize_factor) ==
    LET old_bits == bits
        new_bits == resized_bits(old_bits, resize_factor)
    IN IF build = "debug" /\ (~(new_bits <= MAX_BITS) \/ ~(new_bits # 0))
       THEN Panic(call)
       ELSE IF new_bits = 0
       THEN \* NonZeroUsize::new_unchecked(0): undefined from here on
            /\ pc' = "undefined"
            /\ bits' = 0
            /\ op' = call
            /\ oob' = FALSE
            /\ UNCHANGED <<build, size, layout, buffer, leaked>>
       ELSE /\ new_bits <= MaxModelBits
            /\ bits' = new_bits
            /\ op' = call
            /\ IF size > 0
               THEN LET new_layout == alloc_size(size, new_bits)
                    IN /\ \E f \in ForeignWords :
                            buffer' = repack(0, size, buffer, layout, old_bits,
                                             {}, new_layout, new_bits, f)
                       /\ layout' = new_layout
                       /\ oob' = ~repack_in_block(size, layout, old_bits, new_layout, new_bits)
               ELSE /\ oob' = FALSE
                    /\ UNCHANGED <<layout, buffer>>
            /\ UNCHANGED <<build, pc, size, leaked>>

\* grow_bits_by_powf2()
GrowBitsByPowf2 ==
    /\ pc = "ok"
    /\ bits <= 30   \* 1 << bits within the integers of the model
    /\ resize_bits(Call("grow_bits_by_powf2", 0, {}, 0), powf2_factor(bits))

\* grow_bits_by(amount)
GrowBitsBy(amount) ==
    /\ pc = "ok"
    /\ resize_bits(Call("grow_bits_by", 0, amount, AsIsize(amount)), AsIsize(amount))

\* allocate(size)
Allocate(n) ==
    /\ pc = "ok"
    /\ IF build = "debug" /\ ~(size = 0)
       THEN Panic(Call("allocate", n, {}, 0))
       ELSE /\ layout' = alloc_size(n, bits)
            /\ buffer' = {}
            /\ leaked' = (leaked \/ layout > 0)
            /\ op' = Call("allocate", n, {}, 0)
            /\ oob' = FALSE
            /\ UNCHANGED <<build, pc, bits, size>>

\* deallocate()
Deallocate ==
    /\ pc = "ok"
    /\ IF build = "debug" /\ ~(size > 0)
       THEN Panic(Call("deallocate", 0, {}, 0))
       ELSE IF layout = 0
       THEN \* dealloc of the dangling pointer: undefined from here on
            /\ pc' = "undefined"
            /\ op' = Call("deallocate", 0, {}, 0)
            /\ oob' = FALSE
            /\ UNCHANGED <<build, bits, size, layout, buffer, leaked>>
       ELSE /\ buffer' = {}
            /\ layout' = 0
            /\ size' = 0
            /\ op' = Call("deallocate", 0, {}, 0)
            /\ oob' = FALSE
            /\ UNCHANGED <<build, pc, bits, leaked>>

----------------------------------------------------------------------------
(* Morton3D *)

\* The word of a hexadecimal literal, its digits given most significant first.
HexWord(digits) ==
    UNION {{4 * (Len(digits) - j) + b : b \in Bits(digits[j])} : j \in 1..Len(digits)}

\* The masks of split_bits and join_bits, digit by digit.
Mask_fffff == HexWord(<<15, 15, 15, 15, 15>>)
Mask_1fffff == HexWord(<<1, 15, 15, 15, 15, 15>>)
Mask_1f00000000ffff == HexWord(<<1, 15, 0, 0, 0, 0, 0, 0, 0, 0, 15, 15, 15, 15>>)
Mask_1f0000ff0000ff == HexWord(<<1, 15, 0, 0, 0, 0, 15, 15, 0, 0, 0, 0, 15, 15>>)
Mask_100f00f00f00f00f == HexWord(<<1, 0, 0, 15, 0, 0, 15, 0, 0, 15, 0, 0, 15, 0, 0, 15>>)
Mask_10c30c30c30c30c3 == HexWord(<<1, 0, 12, 3, 0, 12, 3, 0, 12, 3, 0, 12, 3, 0, 12, 3>>)
Mask_1249249249249249 == HexWord(<<1, 2, 4, 9, 2, 4, 9, 2, 4, 9, 2, 4, 9, 2, 4, 9>>)

\* The width of a coordinate kept by split_bits (0x1fffff).
COORD_BITS == 21

\* split_bits with the input masked to 20 bits (0xfffff) instead of 21.
split_bits_20(n) ==
    LET x0 == n \cap Mask_fffff
        x1 == (x0 \cup Shl(x0, 32)) \cap Mask_1f00000000ffff
        x2 == (x1 \cup Shl(x1, 16)) \cap Mask_1f0000ff0000ff
        x3 == (x2 \cup Shl(x2, 8)) \cap Mask_100f00f00f00f00f
        x4 == (x3 \cup Shl(x3, 4)) \cap Mask_10c30c30c30c30c3
    IN (x4 \cup Shl(x4, 2)) \cap Mask_1249249249249249

\* Morton3D::split_bits(n)
split_bits(n) ==
    LET x0 == n \cap Mask_1fffff
        x1 == (x0 \cup Shl(x0, 32)) \cap Mask_1f00000000ffff
        x2 == (x1 \cup Shl(x1, 16)) \cap Mask_1f0000ff0000ff
        x3 == (x2 \cup Shl(x2, 8)) \cap Mask_100f00f00f00f00f
        x4 == (x3 \cup Shl(x3, 4)) \cap Mask_10c30c30c30c30c3
    IN (x4 \cup Shl(x4, 2)) \cap Mask_1249249249249249

\* Morton3D::join_bits(n)
join_bits(n) ==
    LET x0 == n \cap Mask_1249249249249249
        x1 == Xor(x0, Shr(x0, 2)) \cap Mask_10c30c30c30c30c3
        x2 == Xor(x1, Shr(x1, 4)) \cap Mask_100f00f00f00f00f
        x3 == Xor(x2, Shr(x2, 8)) \cap Mask_1f0000ff0000ff
        x4 == Xor(x3, Shr(x3, 16)) \cap Mask_1f00000000ffff
    IN Xor(x4, Shr(x4, 32)) \cap Mask_1fffff

\* i32::unsigned_abs
unsigned_abs(n) == IF n < 0 THEN -n ELSE n

\* The u64 each impl of encode_u64 hands to split_bits for a component: the
\* component itself for UVec3, its unsigned_abs() for the signed types.
component(ty, n) == IF ty = "UVec3" THEN Bits(n) ELSE Bits(unsigned_abs(n))

\* MortonEncodable::encode_u64 for the four coordinate types
encode_u64(ty, pos) ==
    split_bits(component(ty, pos[1]))
        \cup Shl(split_bits(component(ty, pos[2])), 1)
        \cup Shl(split_bits(component(ty, pos[3])), 2)

\* MortonDecodable::decode_u64 for the four coordinate types: join_bits yields
\* at most 21 bits, which `as u32` and `as i32` keep as they are.
decode_u64(ty, morton) ==
    << ToNat(join_bits(morton)),
       ToNat(join_bits(Shr(morton, 1))),
       ToNat(join_bits(Shr(morton, 2))) >>

MortonTypes == {"UVec3", "IVec3", "[i32; 3]", "(i32, i32, i32)"}

\* The components handed to encode: 0, every single bit of the 21, all 21 bits,
\* the two alternating patterns 0x155555 and 0x0aaaaa, and 2^21 (out of range).
UCoords ==
    {0, 2 ^ COORD_BITS - 1, 1398101, 699050, 2 ^ COORD_BITS}
        \cup {2 ^ k : k \in 0..(COORD_BITS - 1)}
\* For the signed types: 0, both signs of 1, of 2^21 - 1 and of the patterns.
ICoords == {0, 1, -1, 2 ^ COORD_BITS - 1, 1 - 2 ^ COORD_BITS, 1398101, -699050}

\* Morton3D::encode(value)
MortonEncode ==
    /\ mstage = "input"
    /\ mstage' = "encoded"
    /\ mcode' = encode_u64(mty, mpos)
    /\ UNCHANGED <<mty, mpos, mout>>
    /\ UNCHANGED <<pvars, calls, nvars, tvars, svars, ivars>>

\* Morton3D::decode()
MortonDecode ==
    /\ mstage = "encoded"
    /\ mstage' = "decoded"
    /\ mout' = decode_u64(mty, mcode)
    /\ UNCHANGED <<mty, mpos, mcode>>
    /\ UNCHANGED <<pvars, calls, nvars, tvars, svars, ivars>>

----------------------------------------------------------------------------
(* Node64 *)

\* BRICK_SHIFT, BRICK_MASK = 0x80000000, CHILD_MASK = 0x7FFFFFFF
BRICK_SHIFT == 31
BRICK_MASK == {31}
CHILD_MASK == 0..30
\* Node64::MAX = i32::MAX as u32, as a word; Node64::MAX_CHILDREN
MAX == 0..30
MAX_CHILDREN == 64

\* child_ptr <= Self::MAX
WithinMax(ptr) == ptr \subseteq MAX

\* `b as u32`, `b as u64`
BoolWord(b) == IF b THEN {0} ELSE {}

\* x << k where the overflow check is compiled out: the amount wraps at 64.
WrappingShl(x, k) == Shl(x, k % 64)
\* x >> k where the overflow check is compiled out.
WrappingShr(x, k) == Shr(x, k % 64)

\* A Node64 value
Node64(ptr, cmask) == [child_ptr |-> ptr, child_mask |-> cmask]

\* Node64::EMPTY
EMPTY == Node64({}, {})

\* Node64::new(is_brick, child_ptr, child_mask), past its debug_assert:
\* child_ptr: ((is_brick as u32) << BRICK_SHIFT) & child_ptr
Node64_new(is_brick, ptr, cmask) ==
    Node64((Shl(BoolWord(is_brick), BRICK_SHIFT) \cap U32) \cap ptr, cmask)

\* is_empty, is_brick, is_cluster, get_child_ptr, has_children of a node
node_is_empty(n) == n.child_ptr = {} /\ n.child_mask = {}
is_brick(n) == (n.child_ptr \cap BRICK_MASK) # {}
is_cluster(n) == (n.child_ptr \cap BRICK_MASK) = {}
get_child_ptr(n) == n.child_ptr \cap CHILD_MASK
has_children(n) == n.child_mask # {}
\* has_child_at(index), for index < MAX_CHILDREN
has_child_at(n, index) == (n.child_mask \cap Shl({0}, index)) # {}

\* The node the Node64 variables hold.
ThisNode == Node64(child_ptr, child_mask)

\* The record of a call on the node.
NodeCall(name, ptr, cmask, index, value) ==
    [name |-> name, ptr |-> ptr, mask |-> cmask, index |-> index, value |-> value]

\* A failed debug_assert! in a Node64 method.
NodePanic(call) ==
    /\ npc' = "panicked"
    /\ nop' = call
    /\ UNCHANGED <<child_ptr, child_mask>>

\* What a Node64 step leaves alone.
NodeFrame == UNCHANGED <<pvars, calls, mvars, tvars, svars, ivars>>

\* The offsets handed to Node64: 0, 5, 2^31 - 1, and 2^31 + 5 (above MAX).
NodePtrs == {{}, Bits(5), MAX, {31} \cup Bits(5)}
\* The masks: 0, 0b101, all ones, bit 63 alone, the odd bits.
NodeMasks == {{}, {0, 2}, U64, {63}, {b \in U64 : b % 2 = 1}}
\* The child indices: the legal ones and 64.
ChildIndices == 0..MAX_CHILDREN

\* new_brick(child_ptr, child_mask) (brick) / new_cluster(child_ptr, child_mask)
NodeNew(brick, ptr, cmask) ==
    LET call == NodeCall(IF brick THEN "new_brick" ELSE "new_cluster", ptr, cmask, 0, FALSE)
    IN /\ npc = "new"
       /\ IF build = "debug" /\ ~WithinMax(ptr)
          THEN NodePanic(call)
          ELSE /\ npc' = "ok"
               /\ child_ptr' = Node64_new(brick, ptr, cmask).child_ptr
               /\ child_mask' = Node64_new(brick, ptr, cmask).child_mask
               /\ nop' = call
       /\ NodeFrame

NewBrick(ptr, cmask) == NodeNew(TRUE, ptr, cmask)
NewCluster(ptr, cmask) == NodeNew(FALSE, ptr, cmask)

\* set_child_ptr(child_ptr)
SetChildPtr(ptr) ==
    /\ npc = "ok"
    /\ IF build = "debug" /\ ~WithinMax(ptr)
       THEN NodePanic(NodeCall("set_child_ptr", ptr, {}, 0, FALSE))
       ELSE /\ child_ptr' = (child_ptr \cap BRICK_MASK) \cup ptr
            /\ nop' = NodeCall("set_child_ptr", ptr, {}, 0, FALSE)
            /\ UNCHANGED <<npc, child_mask>>
    /\ NodeFrame

\* set_child_bit(index, value): self.child_mask &= (value as u64) << index
SetChildBit(index, value) ==
    /\ npc = "ok"
    /\ IF build = "debug" /\ ~(index < MAX_CHILDREN)
       THEN NodePanic(NodeCall("set_child_bit", {}, {}, index, value))
       ELSE /\ child_mask' = child_mask \cap WrappingShl(BoolWord(value), index)
            /\ nop' = NodeCall("set_child_bit", {}, {}, index, value)
            /\ UNCHANGED <<npc, child_ptr>>
    /\ NodeFrame

NodeIdle ==
    /\ child_ptr = {}
    /\ child_mask = {}
    /\ npc = "new"
    /\ nop = NodeCall("none", {}, {}, 0, FALSE)

----------------------------------------------------------------------------
(* Tree64 *)

\* Tree64::MAX_DEPTH
MAX_DEPTH == 15

\* Option: None and Some(x)
None == <<>>
Some(x) == <<x>>

\* get_brick(node) / get_cluster(node): None, or Some of the pool offset at
\* which the 64-slot slice of get_brick_unchecked / get_cluster_unchecked starts.
get_brick(n) ==
    IF is_brick(n) /\ has_children(n) THEN Some(ToNat(get_child_ptr(n))) ELSE None
get_cluster(n) ==
    IF is_cluster(n) /\ has_children(n) THEN Some(ToNat(get_child_ptr(n))) ELSE None

\* Whether the 64 slots that start at `offset` lie inside the pool.
SliceInPool(pool, offset) == offset + MAX_CHILDREN <= Len(pool)

\* get_morton_idx: shift = (self.depth() - current_depth) * 6, in usize; a
\* negative number stands for the wrapped value 2^64 + shift.
morton_shift(d, current_depth) == (d - current_depth) * 6

\* get_morton_idx: ((morton.raw() >> shift) & 0x3F), the overflow check of >>
\* compiled out.
morton_idx(morton, shift) == ToNat(WrappingShr(morton, shift) \cap (0..5))

\* The record of a call on the tree: set_at_depth_recursive(arg, pos, leaf) or
\* get_morton_idx(arg, Morton3D::encode(pos)), with the shift and the index
\* get_morton_idx computed, if it was reached.
TreeCall(name, arg, pos, leaf, shift, idx) ==
    [name |-> name, arg |-> arg, pos |-> pos, leaf |-> leaf, shift |-> shift, idx |-> idx]

\* A failed debug_assert!, expect, overflow check or todo!() in a Tree64 method.
TreePanic(call) ==
    /\ tpc' = "panicked"
    /\ top' = call
    /\ UNCHANGED <<root, node_pool, leaf_pool, depth>>

\* A Tree64 method that returns, the tree as it was.
TreeReturn(call) ==
    /\ top' = call
    /\ UNCHANGED <<root, node_pool, leaf_pool, depth, tpc>>

\* What a Tree64 step leaves alone.
TreeFrame == UNCHANGED <<pvars, calls, mvars, nvars, svars, ivars>>

\* The depths handed to Tree64::new: the legal ones, 0 and 16.
Depths == 0..(MAX_DEPTH + 1)
\* The positions and the leaves handed to the tree.
TreePositions == {<<0, 0, 0>>, <<1, 2, 3>>, <<5, 0, 1048576>>, <<2097151, 2097151, 2097151>>}
TreeLeaves == {7, 9}

\* Tree64::new(depth)
TreeNew(d) ==
    /\ tpc = "new"
    /\ IF (build = "debug" /\ ~(d <= MAX_DEPTH)) \/ d = 0
       THEN TreePanic(TreeCall("new", d, <<0, 0, 0>>, 0, 0, 0))
       ELSE /\ tpc' = "ok"
            /\ root' = EMPTY
            /\ node_pool' = <<>>
            /\ leaf_pool' = <<>>
            /\ depth' = d
            /\ top' = TreeCall("new", d, <<0, 0, 0>>, 0, 0, 0)
    /\ TreeFrame

\* get_morton_idx(current_depth, &Morton3D::encode(pos))
GetMortonIdx(current_depth, pos) ==
    LET morton == encode_u64("UVec3", pos)
        shift  == morton_shift(depth, current_depth)
        idx    == morton_idx(morton, shift)
    IN /\ tpc = "ok"
       /\ IF build = "debug" /\ (~(current_depth <= depth) \/ shift >= 64)
          THEN \* the debug_assert!, or `attempt to shift right with overflow`
               TreePanic(TreeCall("get_morton_idx", current_depth, pos, 0, shift, 0))
          ELSE TreeReturn(TreeCall("get_morton_idx", current_depth, pos, 0, shift, idx))
       /\ TreeFrame

\* set_at_depth_recursive(depth, pos, leaf)
SetAtDepthRecursive(d, pos, leaf) ==
    LET morton  == encode_u64("UVec3", pos)
        shift   == morton_shift(depth, 1)
        idx     == morton_idx(morton, shift)
        cluster == get_cluster(root)
    IN /\ tpc = "ok"
       /\ IF build = "debug" /\ ~(d <= depth)
          THEN TreePanic(TreeCall("set_at_depth_recursive", d, pos, leaf, 0, 0))
          ELSE IF ~(1 < depth)
          THEN \* `for level in 1..self.depth()` has no iteration
               TreeReturn(TreeCall("set_at_depth_recursive", d, pos, leaf, 0, 0))
          ELSE IF build = "debug" /\ shift >= 64
          THEN \* get_morton_idx(1, &morton) overflows its shift
               TreePanic(TreeCall("set_at_depth_recursive", d, pos, leaf, shift, 0))
          ELSE IF cluster # None
          THEN \* current = &cluster[cluster_idx]; break
               /\ IF SliceInPool(node_pool, cluster[1]) THEN UNCHANGED tpc
                                                         ELSE tpc' = "undefined"
               /\ top' = TreeCall("set_at_depth_recursive", d, pos, leaf, shift, idx)
               /\ UNCHANGED <<root, node_pool, leaf_pool, depth>>
          ELSE \* todo!()
               TreePanic(TreeCall("set_at_depth_recursive", d, pos, leaf, shift, idx))
       /\ TreeFrame

RECURSIVE read_from(_, _, _, _)
\* The descent of a read from node n, which is at `level`, down to level d:
\* through get_cluster above level d, through get_brick and has_child_at at it.
read_from(n, level, d, morton) ==
    LET idx == morton_idx(morton, morton_shift(depth, level))
    IN IF level = d
       THEN LET brick == get_brick(n)
            IN IF brick = None \/ ~has_child_at(n, idx) THEN None
               ELSE IF ~SliceInPool(leaf_pool, brick[1]) THEN None
               ELSE Some(leaf_pool[brick[1] + idx + 1])
       ELSE LET cluster == get_cluster(n)
            IN IF cluster = None THEN None
               ELSE IF ~SliceInPool(node_pool, cluster[1]) THEN None
               ELSE read_from(node_pool[cluster[1] + idx + 1], level + 1, d, morton)

\* The read of position pos at depth d, from the root.
get_at_depth(d, pos) == read_from(root, 1, d, encode_u64("UVec3", pos))

TreeIdle ==
    /\ root = EMPTY
    /\ node_pool = <<>>
    /\ leaf_pool = <<>>
    /\ depth = 1
    /\ tpc = "new"
    /\ top = TreeCall("none", 0, <<0, 0, 0>>, 0, 0, 0)

----------------------------------------------------------------------------
(* Section: Section::states is the packed array of the variables above *)

\* Section::SECTION_LEN, and the side of Section::SECTION_SIZE
SECTION_LEN == 4096
SECTION_SIZE == 16

\* pos.cmplt(Self::SECTION_SIZE).all()
InSection(pos) == \A k \in 1..3 : pos[k] < SECTION_SIZE

\* map_to_flat_index(pos), past its debug_assert: x + z * 16 + y * 16 * 16
map_to_flat_index(pos) == pos[1] + (pos[3] * SECTION_SIZE) + (pos[2] * SECTION_SIZE * SECTION_SIZE)

\* content.first()
first(vec) == IF Len(vec) > 0 THEN Some(vec[1]) ELSE None
\* content.get(idx)
vec_get(vec, idx) == IF idx < Len(vec) THEN Some(vec[idx + 1]) ELSE None

\* The record of a get of the section; `valid` is false until a get is made
\* and after every set.
SectionRead(valid, pos, value) == [valid |-> valid, pos |-> pos, value |-> value]
NoRead == SectionRead(FALSE, <<0, 0, 0>>, None)

\* What a Section step leaves alone.
SectionFrame == UNCHANGED <<build, calls, mvars, nvars, tvars, ivars>>

\* The positions and the values handed to the section.
SectionPositions == {<<0, 0, 0>>, <<1, 2, 3>>, <<2, 2, 3>>, <<15, 15, 15>>}
SectionStates == {7, 9}

\* Section::new(y)
SectionNew ==
    /\ pc = "new"
    /\ pc' = "ok"
    /\ bits' = INITIAL_BITS
    /\ size' = 0
    /\ layout' = 0
    /\ buffer' = {}
    /\ op' = Call("zeroed", 0, {}, 0)
    /\ oob' = FALSE
    /\ content' = <<>>
    /\ sres' = NoRead
    /\ UNCHANGED <<leaked, slog>>
    /\ SectionFrame

\* Section::set(pos, state)
SectionSet(pos, state) ==
    LET allocates == is_empty
        \* self.states.allocate(SECTION_LEN), if self.states.is_empty()
        layout1 == IF allocates THEN alloc_size(SECTION_LEN, bits) ELSE layout
        buffer1 == IF allocates THEN {} ELSE buffer
        leaked1 == IF allocates THEN (leaked \/ layout > 0) ELSE leaked
        idx     == Len(content)
        index   == map_to_flat_index(pos)
    IN /\ pc = "ok"
       /\ slog' = Append(slog, <<pos, state>>)
       /\ sres' = NoRead
       /\ content' = Append(content, state)
       /\ layout' = layout1
       /\ leaked' = leaked1
       /\ IF build = "debug" /\ ~InSection(pos)
          THEN \* the debug_assert! of map_to_flat_index
               /\ pc' = "panicked"
               /\ buffer' = buffer1
               /\ op' = IF allocates THEN Call("allocate", SECTION_LEN, {}, 0) ELSE op
               /\ oob' = FALSE
          ELSE IF build = "debug" /\ ~(index < size)
          THEN \* the debug_assert! of PackedArrayU32::set
               /\ pc' = "panicked"
               /\ buffer' = buffer1
               /\ op' = Call("set", index, Bits(idx), 0)
               /\ oob' = FALSE
          ELSE /\ \E f \in ForeignWords :
                    buffer' = set_unchecked(buffer1, layout1, bits, index, Bits(idx), f)
               /\ op' = Call("set", index, Bits(idx), 0)
               /\ oob' = ~access_in_block(layout1, bits, index)
               /\ UNCHANGED pc
       /\ UNCHANGED <<bits, size>>
       /\ SectionFrame

\* Section::get(pos)
SectionGet(pos) ==
    LET index == map_to_flat_index(pos)
    IN /\ pc = "ok"
       /\ IF is_empty
          THEN /\ sres' = SectionRead(TRUE, pos, first(content))
               /\ UNCHANGED <<pc, op, oob>>
          ELSE IF build = "debug" /\ (~InSection(pos) \/ ~(index < size))
          THEN /\ pc' = "panicked"
               /\ sres' = NoRead
               /\ op' = Call("get", index, {}, 0)
               /\ oob' = FALSE
          ELSE \E f \in ForeignWords :
               LET idx == get_unchecked(buffer, layout, bits, index, f)
               IN /\ sres' = SectionRead(TRUE, pos, vec_get(content, ToNat(idx)))
                  /\ op' = Call("get", index, idx, 0)
                  /\ oob' = ~access_in_block(layout, bits, index)
                  /\ UNCHANGED pc
       /\ UNCHANGED <<bits, size, layout, buffer, leaked, content, slog>>
       /\ SectionFrame

SectionIdle ==
    /\ content = <<>>
    /\ sres = NoRead
    /\ slog = <<>>

----------------------------------------------------------------------------
(* IString and the global StringInterner *)

\* The threads that call IString::from.
Threads == 1..NumThreads

\* The strings handed to IString::from, as their bytes: "a" and "ab".  With
\* two distinct strings the hash table of `entries` never grows after its
\* first allocation, so its slots stay where they are.
Strings == {<<97>>, <<97, 98>>}

\* An address: of the bytes of the k-th leaked box (leaked.as_ptr()), or of the
\* slot of the hash table of `entries` that holds the &'static str to that box.
BoxAddr(k) == [kind |-> "box", id |-> k]
SlotAddr(k) == [kind |-> "slot", id |-> k]

\* An IString
IString(inner, length) == [inner |-> inner, len |-> length]
\* What a thread keeps of a call of IString::from: the string and the IString.
Made(string, istring) == [from |-> string, is |-> istring]

\* read.get(string): `entries` holds references to leaked boxes and compares
\* them by content; the entry found, if any, as the set of the boxes it is.
entry_of(string) == {k \in entries : boxes[k] = string}

\* The RwLock: free, read-locked by the threads rs, write-locked by thread t.
LockState(rs, w) == [readers |-> rs, writer |-> w]
Unlocked == LockState({}, 0)

\* What an interner step leaves alone.
InternFrame == UNCHANGED <<pvars, calls, mvars, nvars, tvars, svars>>

\* IString::from(value) is called on thread t: get_or_intern(value) starts.
From(t, string) ==
    /\ ipc[t] = "idle"
    /\ Len(made[t]) < MaxFroms
    /\ ipc' = [ipc EXCEPT ![t] = "read"]
    /\ iarg' = [iarg EXCEPT ![t] = string]
    /\ UNCHANGED <<entries, lock, made, boxes>>
    /\ InternFrame

\* let read = self.entries.read().unwrap()
AcquireRead(t) ==
    /\ ipc[t] = "read"
    /\ lock.writer = 0
    /\ lock' = LockState(lock.readers \cup {t}, 0)
    /\ ipc' = [ipc EXCEPT ![t] = "lookup"]
    /\ UNCHANGED <<entries, iarg, made, boxes>>
    /\ InternFrame

\* if let Some(entry) = read.get(string) { return transmute(entry) }, and the
\* end of the block, which drops the read guard.  entry is a &&'static str, the
\* address of the slot of the table, and transmute returns that address.
Lookup(t) ==
    LET found == entry_of(iarg[t])
    IN /\ ipc[t] = "lookup"
       /\ lock' = LockState(lock.readers \ {t}, lock.writer)
       /\ IF found # {}
          THEN /\ \E k \in found :
                    made' = [made EXCEPT ![t] =
                                Append(@, Made(iarg[t], IString(SlotAddr(k), Len(iarg[t]))))]
               /\ ipc' = [ipc EXCEPT ![t] = "idle"]
          ELSE /\ ipc' = [ipc EXCEPT ![t] = "write"]
               /\ UNCHANGED made
       /\ UNCHANGED <<entries, iarg, boxes>>
       /\ InternFrame

\* let mut write = self.entries.write().unwrap()
AcquireWrite(t) ==
    /\ ipc[t] = "write"
    /\ lock = Unlocked
    /\ lock' = LockState({}, t)
    /\ ipc' = [ipc EXCEPT ![t] = "intern"]
    /\ UNCHANGED <<entries, iarg, made, boxes>>
    /\ InternFrame

\* let leaked = Box::leak(Box::from(string)); write.insert(leaked);
\* leaked.as_ptr(), and the drop of the write guard.  insert leaves the set
\* as it is when it already holds an equal string.
Intern(t) ==
    LET k == Len(boxes) + 1
    IN /\ ipc[t] = "intern"
       /\ lock.writer = t
       /\ boxes' = Append(boxes, iarg[t])
       /\ entries' = IF entry_of(iarg[t]) # {} THEN entries ELSE entries \cup {k}
       /\ made' = [made EXCEPT ![t] = Append(@, Made(iarg[t], IString(BoxAddr(k), Len(iarg[t]))))]
       /\ lock' = Unlocked
       /\ ipc' = [ipc EXCEPT ![t] = "idle"]
       /\ UNCHANGED iarg
       /\ InternFrame

InternIdle ==
    /\ entries = {}
    /\ lock = Unlocked
    /\ ipc = [t \in Threads |-> "idle"]
    /\ iarg = [t \in Threads |-> <<>>]
    /\ made = [t \in Threads |-> <<>>]
    /\ boxes = <<>>

----------------------------------------------------------------------------
(* The packed array: its specifications *)

MortonIdle ==
    /\ mty = "UVec3"
    /\ mstage = "idle"
    /\ mpos = <<0, 0, 0>>
    /\ mcode = {}
    /\ mout = <<0, 0, 0>>

Init ==
    /\ build \in {"debug", "release"}
    /\ pc = "new"
    /\ bits = INITIAL_BITS
    /\ size = 0
    /\ layout = 0
    /\ buffer = {}
    /\ op = Call("none", 0, {}, 0)
    /\ oob = FALSE
    /\ leaked = FALSE
    /\ calls = 0
    /\ MortonIdle
    /\ NodeIdle
    /\ TreeIdle
    /\ SectionIdle
    /\ InternIdle

\* What a step of the packed array leaves alone, and how the caller counts it:
\* a constructor starts the count, Counted(max) counts one more call up to max,
\* Uncounted leaves the count at 0.
Fresh == calls' = 0 /\ UNCHANGED others
Counted(max) == calls < max /\ calls' = calls + 1 /\ UNCHANGED others
Uncounted == calls = 0 /\ calls' = 0 /\ UNCHANGED others

\* Spec: a caller that makes any call with any argument, in range or not,
\* MaxOps calls on each array.
Next ==
    \/ \E n \in Counts : New(n) /\ Fresh
    \/ Zeroed /\ Fresh
    \/ \E n \in Counts, w \in Widths : WithBitLength(n, w) /\ Fresh
    \/ \E w \in Widths : ZeroedWithBitLength(w) /\ Fresh
    \/ \E i \in Indices : Counted(MaxOps) /\ Get(i)
    \/ \E i \in Indices, v \in Values(bits) : Counted(MaxOps) /\ Set(i, v)
    \/ Counted(MaxOps) /\ GrowBitsByPowf2
    \/ \E a \in Amounts : Counted(MaxOps) /\ GrowBitsBy(a)
    \/ \E n \in Counts : Counted(MaxOps) /\ Allocate(n)
    \/ Counted(MaxOps) /\ Deallocate

Spec == Init /\ [][Next]_vars

\* SpecWidths: a caller that keeps the contract of get and set (index < len(),
\* value < 2^bit_length) on pre-sized arrays of every width, and calls them
\* without end.
NextWidths ==
    \/ \E n \in Counts : New(n) /\ Fresh
    \/ \E n \in Counts, w \in Widths : WithBitLength(n, w) /\ Fresh
    \/ \E i \in 0..(size - 1) : Uncounted /\ Get(i)
    \/ \E i \in 0..(size - 1), v \in InRangeValues(bits) : Uncounted /\ Set(i, v)

SpecWidths == Init /\ [][NextWidths]_vars

\* SpecResize: a caller that fills a pre-sized array of any width, keeping the
\* contract of set, and then changes its width MaxResizes times.
NextResize ==
    \/ \E n \in Counts, w \in Widths : WithBitLength(n, w) /\ Fresh
    \/ \E i \in 0..(size - 1), v \in InRangeValues(bits) : Uncounted /\ Set(i, v)
    \/ Counted(MaxResizes) /\ GrowBitsByPowf2
    \/ \E a \in InRangeAmounts : Counted(MaxResizes) /\ GrowBitsBy(a)

SpecResize == Init /\ [][NextResize]_vars


----------------------------------------------------------------------------
(* The packed array: its properties *)

\* get(i) returns v, whatever lies in the memory after the block.
Reads(i, v) == \A f \in ForeignWords : get_unchecked(buffer, layout, bits, i, f) = v

\* get(i) returns v after the step.
ReadsNext(i, v) ==
    \A f \in ForeignWords : get_unchecked(buffer', layout', bits', i, f) = v

\* v modulo 2^n
ModPow2(v, n) == {b \in v : b < n}

\* The step is a call of one of `names` that the caller counted.
CountedCall(names) == calls' = calls + 1 /\ op'.name \in names

\* C1: for every width in [1,32], after set(i, v) with i < count and v < 2^width,
\* get(i) returns v; as this holds after every such set, it holds after the same
\* set repeated any number of times.
C1_SetThenGet ==
    (pc = "ok" /\ op.name = "set" /\ op.index < size
        /\ bits \in 1..MAX_BITS /\ Fits(op.value, bits))
    => Reads(op.index, op.value)

\* C1's case: width 5, two elements; element 0 holds 0b11111 and set(1, 0b10101)
\* has just been called.
C1_Witness ==
    /\ pc = "ok" /\ op.name = "set" /\ bits = 5 /\ size = 2
    /\ op.index = 1 /\ op.value = {0, 2, 4}
    /\ Reads(0, {0, 1, 2, 3, 4})

\* C2: a grow_bits_by (or grow_bits_by_powf2) call that takes an allocated array
\* from a width in [1,32] to a larger width in [1,32] leaves the count and every
\* element as they were.
C2_GrowPreserves ==
    [][(pc = "ok" /\ pc' = "ok" /\ CountedCall({"grow_bits_by", "grow_bits_by_powf2"})
            /\ size > 0 /\ bits \in 1..MAX_BITS /\ bits' > bits /\ bits' <= MAX_BITS)
        => /\ size' = size
           /\ \A i \in 0..(size - 1) :
                LET old == get_unchecked(buffer, layout, bits, i, {})
                IN /\ Reads(i, old)
                   /\ ReadsNext(i, old)]_vars

\* C2's case: an array of two 5-bit elements 0b10101 and 0b11111 has been grown
\* by 3 bits to width 8.
C2_Witness ==
    /\ pc = "ok" /\ op.name = "grow_bits_by" /\ op.arg = 3 /\ bits = 8 /\ size = 2
    /\ Reads(0, {0, 2, 4})
    /\ Reads(1, {0, 1, 2, 3, 4})

\* C3: a width change that takes an allocated array to a smaller width n >= 1
\* leaves every element equal to its previous value modulo 2^n, at the same
\* index, whatever its neighbours hold.
C3_ShrinkTruncates ==
    [][(pc = "ok" /\ pc' = "ok" /\ CountedCall({"grow_bits_by", "grow_bits_by_powf2"})
            /\ size > 0 /\ bits' < bits /\ bits' >= 1)
        => /\ size' = size
           /\ \A i \in 0..(size - 1) :
                LET old == get_unchecked(buffer, layout, bits, i, {})
                IN /\ Reads(i, old)
                   /\ ReadsNext(i, ModPow2(old, bits'))
                   /\ bits <= 30 => ReadsNext(i, Bits(ToNat(old) % (2 ^ bits')))]_vars

\* C3's case: an array of two 8-bit elements has been shrunk by 3 bits (the usize
\* amount 2^64 - 3) to width 5; element 0 was 0xFF and reads 0b11111, element 1
\* was 0b01010101 and reads 0b10101.
C3_Witness ==
    /\ pc = "ok" /\ op.name = "grow_bits_by" /\ op.arg = -3 /\ bits = 5 /\ size = 2
    /\ Reads(0, {0, 1, 2, 3, 4})
    /\ Reads(1, {0, 2, 4})

\* C4: set(i, v) with i < count and v >= 2^width is rejected, and no element of
\* the array changes.
C4_OverflowRejected ==
    [][(pc = "ok" /\ CountedCall({"set"}) /\ op'.index < size
            /\ bits \in 1..MAX_BITS /\ ~Fits(op'.value, bits))
        => /\ pc' = "panicked"
           /\ \A j \in 0..(size - 1) :
                LET old == get_unchecked(buffer, layout, bits, j, {})
                IN Reads(j, old) /\ ReadsNext(j, old)]_vars

\* C5: grow_bits_by_powf2 on an array of width w sets the width to 2 * w when
\* 2 * w <= 32 and to 32 otherwise.
C5_Doubles ==
    [][(pc = "ok" /\ CountedCall({"grow_bits_by_powf2"}) /\ bits \in 1..MAX_BITS)
        => (pc' = "ok" /\ bits' = IF 2 * bits <= MAX_BITS THEN 2 * bits ELSE MAX_BITS)]_vars

\* C6: in every state of an array, however it was constructed and grown, the
\* width is in [1,32]; with_bit_length with a width outside [1,32] fails.
C6_WidthInRange ==
    /\ pc \in {"ok", "undefined"} => bits \in 1..MAX_BITS
    /\ (op.name = "with_bit_length" /\ op.arg \notin 1..MAX_BITS) => pc = "panicked"

\* C7: allocate(count) with count > 0 on an empty array leaves len() = count,
\* is_empty() false and every element 0; an allocate that follows an allocate
\* with no deallocate between them is rejected.
C7_AllocateSizes ==
    [][(pc = "ok" /\ CountedCall({"allocate"}))
        => /\ (size = 0 /\ op.name # "allocate") =>
                /\ pc' = "ok"
                /\ len' = op'.index
                /\ ~is_empty'
                /\ \A i \in 0..(op'.index - 1) : \A f \in ForeignWords :
                        get_unchecked(buffer', layout', bits', i, f) = {}
           /\ op.name = "allocate" => pc' = "panicked"]_vars

\* C8: on an allocated array of a width in [1,32], the u64 that get(i) or
\* set(i, v) loads or stores for i < count lies inside the heap block.
C8_AccessInBlock ==
    (pc = "ok" /\ op.name \in {"get", "set"} /\ size > 0 /\ op.index < size
        /\ bits \in 1..MAX_BITS)
    => ~oob

\* C19: on an allocated array of a width in [1,32], set(i, v) with i < count and
\* v < 2^width leaves the count, the width and every element j # i, j < count,
\* as they were, also where j shares a byte or the 64-bit word with i.
C19_SetFrame ==
    [][(pc = "ok" /\ pc' = "ok" /\ op'.name = "set" /\ size > 0 /\ op'.index < size
            /\ bits \in 1..MAX_BITS /\ Fits(op'.value, bits))
        => /\ size' = size
           /\ bits' = bits
           /\ \A j \in (0..(size - 1)) \ {op'.index} :
                LET old == get_unchecked(buffer, layout, bits, j, {})
                IN /\ Reads(j, old)
                   /\ ReadsNext(j, old)]_vars

\* C19's case: two 3-bit elements in one byte; element 1 holds 0b111 and
\* set(0, 0b101) has just been called.
C19_Witness ==
    /\ pc = "ok" /\ op.name = "set" /\ bits = 3 /\ size = 2
    /\ op.index = 0 /\ op.value = {0, 2}
    /\ Reads(0, {0, 2})
    /\ Reads(1, {0, 1, 2})


----------------------------------------------------------------------------
(* Morton3D: its specification and properties *)

ArrayIdle ==
    /\ build \in {"debug", "release"}
    /\ pc = "new"
    /\ bits = INITIAL_BITS
    /\ size = 0
    /\ layout = 0
    /\ buffer = {}
    /\ op = Call("none", 0, {}, 0)
    /\ oob = FALSE
    /\ leaked = FALSE
    /\ calls = 0

\* SpecMorton: coordinates of each type are encoded, and the code decoded.
InitMorton ==
    /\ ArrayIdle
    /\ mty \in MortonTypes
    /\ mpos \in IF mty = "UVec3" THEN UCoords \X UCoords \X UCoords
                                  ELSE ICoords \X ICoords \X ICoords
    /\ mstage = "input"
    /\ mcode = {}
    /\ mout = <<0, 0, 0>>
    /\ NodeIdle
    /\ TreeIdle
    /\ SectionIdle
    /\ InternIdle

NextMorton ==
    \/ MortonEncode
    \/ MortonDecode

SpecMorton == InitMorton /\ [][NextMorton]_vars

\* Every component lies in [0, 2^21).
InUnsignedRange(pos) == \A k \in 1..3 : pos[k] >= 0 /\ pos[k] < 2 ^ COORD_BITS
\* Every component has a magnitude below 2^21.
InSignedRange(pos) == \A k \in 1..3 : unsigned_abs(pos[k]) < 2 ^ COORD_BITS

\* C9: for unsigned coordinates x, y, z in [0, 2^21), decode(encode(x, y, z)) is
\* (x, y, z) (so that two such triples with the same code are equal).
C9_UnsignedRoundTrip ==
    (mstage = "decoded" /\ mty = "UVec3" /\ InUnsignedRange(mpos)) => mout = mpos

\* C9's case: (2^21 - 1, 0x155555, 2^20) has been encoded and decoded.
C9_Witness ==
    /\ mstage = "decoded" /\ mty = "UVec3"
    /\ mpos = <<2097151, 1398101, 1048576>>
    /\ mout = mpos
    /\ mcode # {}

\* C10: for the signed coordinate types, decode(encode(x, y, z)) is (x, y, z)
\* whenever every component has a magnitude below 2^21, negative ones included.
C10_SignedRoundTrip ==
    (mstage = "decoded" /\ mty # "UVec3" /\ InSignedRange(mpos)) => mout = mpos


----------------------------------------------------------------------------
(* Node64: its specification and properties *)

\* SpecNode: a node is made by either constructor, with offsets within and
\* above MAX, and its offset and its child bits are then set without end.
NextNode ==
    \/ \E ptr \in NodePtrs, cmask \in NodeMasks : NewBrick(ptr, cmask)
    \/ \E ptr \in NodePtrs, cmask \in NodeMasks : NewCluster(ptr, cmask)
    \/ \E ptr \in NodePtrs : SetChildPtr(ptr)
    \/ \E index \in ChildIndices, value \in BOOLEAN : SetChildBit(index, value)

SpecNode == Init /\ [][NextNode]_vars

\* C11: for every offset <= 2^31 - 1 and every mask, new_brick(offset, mask)
\* yields a node with is_brick() true and new_cluster(offset, mask) one with
\* is_cluster() true; in both the offset reads back as given and has_child_at(i)
\* is bit i of the mask, for every i in [0,64).
C11_ConstructorsStore ==
    (nop.name \in {"new_brick", "new_cluster"} /\ WithinMax(nop.ptr))
    => /\ npc = "ok"
       /\ nop.name = "new_brick" => is_brick(ThisNode)
       /\ nop.name = "new_cluster" => is_cluster(ThisNode)
       /\ get_child_ptr(ThisNode) = nop.ptr
       /\ \A i \in 0..(MAX_CHILDREN - 1) : has_child_at(ThisNode, i) <=> i \in nop.mask

\* C12: after set_child_bit(i, present) with i in [0,64), has_child_at(i) is
\* `present`, has_child_at(j) is as before for every j # i, and the tagged
\* offset field is as before.
C12_SetChildBitFrame ==
    [][(npc = "ok" /\ nop'.name = "set_child_bit" /\ nop'.index < MAX_CHILDREN)
        => /\ npc' = "ok"
           /\ has_child_at(ThisNode', nop'.index) <=> nop'.value
           /\ \A j \in (0..(MAX_CHILDREN - 1)) \ {nop'.index} :
                has_child_at(ThisNode', j) <=> has_child_at(ThisNode, j)
           /\ child_ptr' = child_ptr]_vars

----------------------------------------------------------------------------
(* Tree64: its specification and properties *)

\* SpecTree: a tree of any depth is made, values are set at its depths and
\* child indices are extracted for its levels (and for one level too many).
NextTree ==
    \/ \E d \in Depths : TreeNew(d)
    \/ \E level \in 1..(depth + 1), pos \in TreePositions : GetMortonIdx(level, pos)
    \/ \E d \in 1..(depth + 1), pos \in TreePositions, leaf \in TreeLeaves :
            SetAtDepthRecursive(d, pos, leaf)

SpecTree == Init /\ [][NextTree]_vars

\* C13: on a tree of depth d in [1,15], set_at_depth_recursive(d, p, v)
\* completes and a read of p at depth d then returns v; on a tree nothing was
\* written to, a read of any position returns absence.
C13_WriteThenRead ==
    /\ (top.name = "set_at_depth_recursive" /\ depth \in 1..MAX_DEPTH /\ top.arg = depth)
        => (tpc = "ok" /\ get_at_depth(depth, top.pos) = Some(top.leaf))
    /\ (tpc = "ok" /\ top.name = "new")
        => \A pos \in TreePositions : get_at_depth(depth, pos) = None

\* C14: for every depth d in [1,15] and every level in [1,d], get_morton_idx
\* shifts the 64-bit code by at most 57 bits, so that the 6 bits it extracts
\* lie inside the 63 usable bits of the code, and it returns.
C14_ShiftInCode ==
    (top.name = "get_morton_idx" /\ depth \in 1..MAX_DEPTH /\ top.arg \in 1..depth)
    => (tpc = "ok" /\ top.shift <= 57)

----------------------------------------------------------------------------
(* Section: its specification and properties *)

\* SpecSection: a section is made, its caller sets in-range positions MaxSets
\* times and reads in-range positions at any time.
NextSection ==
    \/ SectionNew
    \/ \E pos \in SectionPositions, state \in SectionStates :
            Len(slog) < MaxSets /\ SectionSet(pos, state)
    \/ \E pos \in SectionPositions : SectionGet(pos)

SpecSection == Init /\ [][NextSection]_vars

\* The set calls made so far that wrote position pos, and the value of the last.
SetsAt(pos) == {k \in 1..Len(slog) : slog[k][1] = pos}
LastSetAt(pos) == slog[CHOOSE k \in SetsAt(pos) : \A j \in SetsAt(pos) : j <= k][2]

\* C15: after one or more sets of in-range positions, get(p) returns the value
\* most recently set at p if p was written, and palette slot 0, the first value
\* ever set, if it was not.
C15_ExactPerPosition ==
    (sres.valid /\ Len(slog) >= 1)
    => sres.value = Some(IF SetsAt(sres.pos) # {} THEN LastSetAt(sres.pos) ELSE slog[1][2])

\* C16: on a fresh section get returns absence; the first set(p, v) completes
\* normally, and after it get of every in-range position returns v.
C16_FirstSetAnswersAll ==
    /\ (sres.valid /\ slog = <<>>) => sres.value = None
    /\ Len(slog) = 1 => pc = "ok"
    /\ (sres.valid /\ Len(slog) = 1) => sres.value = Some(slog[1][2])

\* C17: the first set allocates the indices, 4096 slots; every later set finds
\* them allocated, allocates nothing and leaves the indices that earlier sets
\* wrote at other positions as they are.
C17_AllocatedOnce ==
    [][(pc = "ok" /\ slog' # slog)
        => IF slog = <<>>
           THEN /\ len' = SECTION_LEN
                /\ layout' = alloc_size(SECTION_LEN, bits')
           ELSE /\ ~is_empty
                /\ layout' = layout
                /\ leaked' = leaked
                /\ \A k \in 1..Len(slog) :
                      LET index == map_to_flat_index(slog[k][1])
                      IN index # op'.index =>
                            \A f \in ForeignWords :
                                get_unchecked(buffer', layout', bits', index, f)
                                    = get_unchecked(buffer, layout, bits, index, f)]_vars

----------------------------------------------------------------------------
(* IString: its specification and properties *)

\* SpecIntern: NumThreads threads each call IString::from MaxFroms times, on
\* any of the strings, their steps interleaved in any order the lock allows.
NextIntern ==
    \/ \E t \in Threads, string \in Strings : From(t, string)
    \/ \E t \in Threads : AcquireRead(t)
    \/ \E t \in Threads : Lookup(t)
    \/ \E t \in Threads : AcquireWrite(t)
    \/ \E t \in Threads : Intern(t)

SpecIntern == Init /\ [][NextIntern]_vars

\* The IStrings made so far, by any thread.
AllMade == UNION {{made[t][i] : i \in 1..Len(made[t])} : t \in Threads}

\* C18: whatever the threads and the interleaving of their IString::from calls,
\* two IStrings made from equal contents have the same as_ptr(), and that
\* pointer addresses the one interned copy of the bytes; a second IString made
\* from an already interned string by the same thread is such a case.
C18_SameContentSamePointer ==
    \A a \in AllMade :
        /\ \A b \in AllMade : a.from = b.from => a.is.inner = b.is.inner
        /\ a.is.inner.kind = "box"
        /\ boxes[a.is.inner.id] = a.from
        /\ Cardinality({k \in 1..Len(boxes) : boxes[k] = a.from}) = 1

====
